---- MODULE Spec2Model ----
(***************************************************************************)
(* A model of the core of the ECS runtime: the entity-component store      *)
(* (engine/core/ecs/entity_manager.py) with its embedded event queue, the  *)
(* aspect matcher (engine/core/ecs/aspect.py) and the game state machine   *)
(* (engine/core/state_machine/states.py).                                  *)
(*                                                                         *)
(* Spec is the store under the calls of a host; SpecQueue is the event     *)
(* queue on its own, SpecAspect the aspect matcher on its inputs and       *)
(* SpecMachine the state machine. SpecTick adds CombatState.update and     *)
(* draw (engine_plugins/game_states.py) with the systems of main() to the  *)
(* store, SpecAspectEq compares and hashes pairs of aspects, and SpecView  *)
(* queries the component views of one entity. SpecLog is Spec with every   *)
(* push on the queue recorded, SpecCache is CombatState.update with the    *)
(* systems' caches (engine_plugins/systems.py) followed, and SpecRun is    *)
(* PygameGame.run (test_shooter_main.py) driving the state machine. Each   *)
(* leaves the others' variables alone.                                     *)
(*                                                                         *)
(* Python dictionaries are functions whose DOMAIN is the set of keys.      *)
(* A call that raises is modelled with every write it made before the      *)
(* raise; the exception's class is recorded in last.err.                   *)
(***************************************************************************)
EXTENDS Integers, Sequences, FiniteSets, TLC

VARIABLES
    entities,            \* EntityManager.entities: EntityID -> set of ComponentName
    components,          \* EntityManager.components: ComponentName -> (EntityID -> object)
    events,              \* EntityManager.events.events: list of EntityManagerEvent
    component_classes,   \* EntityManager._component_classes: ComponentName -> Type
    entities_to_remove,  \* EntityManager._entities_to_remove: set of EntityID
    next_entity_id,      \* EntityManager._next_entity_id
    last,                \* the latest call on the store and the exception it raised
    calls,               \* the number of calls made so far
    created,             \* the IDs create_entity has returned, in call order
    queue_log,           \* SpecQueue: the push and get calls made on the queue, in order
    tested_aspect,       \* SpecAspect: the Aspect under test
    tested_names,        \* SpecAspect: the set of names given to the Aspect's methods
    other_aspect,        \* SpecAspectEq: the Aspect that tested_aspect is compared with
    answer,              \* SpecAspect: what the latest method call returned
    states,              \* GameStateMachine.states: the names of its keys
    state,               \* GameStateMachine.state: the name of the active state
    done,                \* GameState.done, by state name
    next_state,          \* GameState.next_state, by state name: a state's name or "None"
    invoked,             \* SpecMachine: what the latest call on the machine invoked, in order
    game,                \* SpecRun: PygameGame.done, the position in run and the lifecycle of each state
    tick,                \* SpecTick: what the latest iteration of the host loop did
    systems              \* SpecCache: the systems' caches and patterns, by system name

store_vars == <<entities, components, events, component_classes, entities_to_remove,
                next_entity_id, created>>
aspect_vars == <<tested_aspect, tested_names, other_aspect, answer>>
machine_vars == <<states, state, done, next_state, invoked, game>>

vars == <<entities, components, events, component_classes, entities_to_remove,
          next_entity_id, last, created, calls, queue_log, tested_aspect, tested_names,
          answer, states, state, done, next_state, invoked, tick, other_aspect, systems, game>>

----------------------------------------------------------------------------
(* Bounds of the model. *)

\* The behaviours checked are those of at most this many calls on the store.
MaxCalls == 4

----------------------------------------------------------------------------
(* Values. *)

ComponentNames == {"Pos", "Left"}

\* The component classes the host registers, by kind name.
to_register == [n \in ComponentNames |-> IF n = "Pos" THEN "PosCls" ELSE "LeftCls"]

Classes == {to_register[n] : n \in ComponentNames}

RemoveEntityID == 0
EntityAddedID == 1

EntityManagerEvent(event_id, info) == [id |-> event_id, info |-> info]
RemoveEntity(entity_id) == EntityManagerEvent(RemoveEntityID, [entity_id |-> entity_id])
EntityAdded(entity_id) == EntityManagerEvent(EntityAddedID, [entity_id |-> entity_id])

EmptyDict == [x \in {} |-> 0]
Put(d, k, v) == [x \in (DOMAIN d) \cup {k} |-> IF x = k THEN v ELSE d[x]]
Del(d, k) == [x \in (DOMAIN d) \ {k} |-> d[x]]

\* The orders in which a Python set (or the keys of a dict built by the
\* caller) can be iterated: every sequence holding each member once.
Orders(S) == {s \in [1..Cardinality(S) -> S] : \A i, j \in 1..Cardinality(S) : s[i] = s[j] => i = j}

\* An object: its class and its identity. The identity names the slot (kind,
\* entity) the object was made for, so objects of different slots are
\* distinct; two objects made for the same slot are not told apart.
NewObject(cls, component_name, entity_id) == [cls |-> cls, oid |-> <<component_name, entity_id>>]

\* The store as one value.
EM == [entities |-> entities, components |-> components, events |-> events,
       component_classes |-> component_classes,
       entities_to_remove |-> entities_to_remove,
       next_entity_id |-> next_entity_id]

----------------------------------------------------------------------------
(* EntityManagerEventQueue *)

\* push with the event put at the head of the list (insert(0, ...) for append).
push_front(evs, event_obj) == <<event_obj>> \o evs

push(evs, event_obj) == Append(evs, event_obj)

----------------------------------------------------------------------------
(* EntityManager: the methods as functions of the store. Each gives the    *)
(* store after the call and the exception raised ("none" when it returns). *)

registered_components(em) == DOMAIN em.component_classes

live_entities(em) == DOMAIN em.entities

\* The validity test with the comparison turned round (>= for <=).
is_component_names_valid_reversed(em, component_names) == registered_components(em) \subseteq component_names

is_component_names_valid(em, component_names) == component_names \subseteq registered_components(em)

register_component(em, component_name, component_cls) ==
    [em EXCEPT !.component_classes = Put(@, component_name, component_cls),
               !.components = Put(@, component_name, EmptyDict)]

\* The counter left as it is after a creation.
NextEntityIdKept(n) == n

\* `self._next_entity_id += 1`
NextEntityId(n) == n + 1

Range(seq) == {seq[i] : i \in DOMAIN seq}

\* create_entity, instantiated=False: the loop over new_components.keys().
\* keys[i] is the i-th key of the dict; infos[i].complete says whether the
\* NewComponentInfo under it has both 'args' and 'kwargs'.
RECURSIVE construct_components(_, _, _, _, _, _)
construct_components(comps, classes, keys, infos, entity_id, i) ==
    IF i > Len(keys) THEN [components |-> comps, err |-> "none"]
    ELSE IF ~infos[i].complete
         THEN [components |-> comps, err |-> "IncompleteNewComponentInfo"]
         ELSE IF keys[i] \notin DOMAIN classes
         THEN [components |-> comps, err |-> "KeyError"]
         ELSE LET component_name == keys[i]
                  component_cls == classes[component_name]
                  obj == NewObject(component_cls, component_name, entity_id)
              IN construct_components(
                     [comps EXCEPT ![component_name] = Put(@, entity_id, obj)],
                     classes, keys, infos, entity_id, i + 1)

\* create_entity, instantiated=True: the loop over new_components.items().
\* objs[i] is the object under keys[i].
RECURSIVE check_and_store_components(_, _, _, _, _, _)
check_and_store_components(comps, classes, keys, objs, entity_id, i) ==
    IF i > Len(keys) THEN [components |-> comps, err |-> "none"]
    ELSE IF keys[i] \notin DOMAIN classes
    THEN [components |-> comps, err |-> "KeyError"]
    ELSE LET new_component_name == keys[i]
             new_component_obj == objs[i]
             new_component_type == new_component_obj.cls
             expected_type == classes[new_component_name]
         IN IF new_component_type # expected_type
            THEN [components |-> comps, err |-> "InvalidComponentTypeError"]
            ELSE check_and_store_components(
                     [comps EXCEPT ![new_component_name] = Put(@, entity_id, new_component_obj)],
                     classes, keys, objs, entity_id, i + 1)

create_entity(em, keys, vals, instantiated) ==
    IF ~is_component_names_valid(em, Range(keys))
    THEN [em |-> em, err |-> "InvalidComponentNameError", ret |-> -1]
    ELSE LET current_entity_id == em.next_entity_id
             r == IF ~instantiated
                  THEN construct_components(em.components, em.component_classes,
                                            keys, vals, current_entity_id, 1)
                  ELSE check_and_store_components(em.components, em.component_classes,
                                                  keys, vals, current_entity_id, 1)
         IN IF r.err # "none"
            THEN [em |-> [em EXCEPT !.components = r.components], err |-> r.err, ret |-> -1]
            ELSE [em |-> [em EXCEPT !.components = r.components,
                                    !.entities = Put(@, current_entity_id, Range(keys)),
                                    !.next_entity_id = NextEntityId(@),
                                    !.events = push(@, EntityAdded(current_entity_id))],
                  err |-> "none", ret |-> current_entity_id]

add_component_to_entity(em, entity_id, component_name, new_component_info) ==
    IF entity_id \notin live_entities(em)
    THEN [em |-> em, err |-> "InvalidEntityIDError"]
    ELSE IF component_name \notin registered_components(em)
    THEN [em |-> em, err |-> "InvalidComponentNameError"]
    ELSE IF ~new_component_info.complete
    THEN [em |-> em, err |-> "IncompleteNewComponentInfo"]
    ELSE LET component_cls == em.component_classes[component_name]
             obj == NewObject(component_cls, component_name, entity_id)
         IN [em |-> [em EXCEPT !.components[component_name] = Put(@, entity_id, obj)],
             err |-> "none"]

\* get_entity answering an unknown ID with an empty entity instead of raising.
get_entity_or_empty(em, entity_id) ==
    IF entity_id \notin DOMAIN em.entities
    THEN [em |-> em, err |-> "none", entity |-> EmptyDict]
    ELSE LET entity_component_names == em.entities[entity_id]
         IN IF \E component_name \in entity_component_names :
                   entity_id \notin DOMAIN em.components[component_name]
            THEN [em |-> em, err |-> "KeyError", entity |-> EmptyDict]
            ELSE [em |-> em, err |-> "none",
                  entity |-> [component_name \in entity_component_names |->
                                  em.components[component_name][entity_id]]]

get_entity(em, entity_id) ==
    IF entity_id \notin DOMAIN em.entities
    THEN [em |-> em, err |-> "InvalidEntityIDError", entity |-> EmptyDict]
    ELSE LET entity_component_names == em.entities[entity_id]
         IN IF \E component_name \in entity_component_names :
                   entity_id \notin DOMAIN em.components[component_name]
            THEN [em |-> em, err |-> "KeyError", entity |-> EmptyDict]
            ELSE [em |-> em, err |-> "none",
                  entity |-> [component_name \in entity_component_names |->
                                  em.components[component_name][entity_id]]]

\* remove_entity, immediate=True: `del self.components[name][entity_id]` for
\* the attached names in the order `order`; the del of a missing key raises.
RECURSIVE delete_components(_, _, _, _)
delete_components(comps, order, entity_id, i) ==
    IF i > Len(order) THEN [components |-> comps, err |-> "none"]
    ELSE IF entity_id \notin DOMAIN comps[order[i]]
         THEN [components |-> comps, err |-> "KeyError"]
         ELSE delete_components([comps EXCEPT ![order[i]] = Del(@, entity_id)],
                                order, entity_id, i + 1)

\* The branch taken whatever the flag says.
IsImmediateAlways(immediate) == TRUE

\* `if immediate:` of remove_entity
IsImmediate(immediate) == immediate

\* The outcomes of remove_entity: one for each iteration order of the
\* entity's set of attached names.
remove_entity(em, entity_id, immediate) ==
    IF entity_id \notin live_entities(em)
    THEN {[em |-> em, err |-> "InvalidEntityIDError"]}
    ELSE IF IsImmediate(immediate)
    THEN LET pushed == [em EXCEPT !.events = push(@, RemoveEntity(entity_id))]
         IN {LET r == delete_components(pushed.components, order, entity_id, 1)
             IN IF r.err # "none"
                THEN [em |-> [pushed EXCEPT !.components = r.components], err |-> r.err]
                ELSE [em |-> [pushed EXCEPT !.components = r.components,
                                            !.entities = Del(@, entity_id)],
                      err |-> "none"]
             : order \in Orders(em.entities[entity_id])}
    ELSE {[em |-> [em EXCEPT !.entities_to_remove = @ \cup {entity_id}], err |-> "none"]}

\* The loop of remove_queued_entities over `order`, from each store in `ems`.
RECURSIVE remove_each(_, _, _)
remove_each(em, order, i) ==
    IF i > Len(order) THEN {[em |-> em, err |-> "none"]}
    ELSE UNION {IF r.err # "none" THEN {r} ELSE remove_each(r.em, order, i + 1)
                : r \in remove_entity(em, order[i], TRUE)}

remove_queued_entities(em) ==
    UNION {{IF r.err # "none" THEN r
            ELSE [em |-> [r.em EXCEPT !.entities_to_remove = {}], err |-> "none"]
            : r \in remove_each(em, order, 1)}
           : order \in Orders(em.entities_to_remove)}

\* get without the clear(): the list is returned and stays buffered.
get_keep(evs) == [to_return |-> evs, events |-> evs]

\* EntityManagerEventQueue.get: the list returned and the buffer left.
get(evs) == [to_return |-> evs, events |-> <<>>]

----------------------------------------------------------------------------
(* The calls a host makes on the store. *)

\* The store's fields after a call that left it as `em`.
Becomes(em) ==
    /\ entities' = em.entities
    /\ components' = em.components
    /\ events' = em.events
    /\ component_classes' = em.component_classes
    /\ entities_to_remove' = em.entities_to_remove
    /\ next_entity_id' = em.next_entity_id

NoCall == [op |-> "init", err |-> "none"]

\* The call `op` was made on the store and raised `err` ("none": it returned).
Called(op, err) ==
    /\ calls < MaxCalls
    /\ calls' = calls + 1
    /\ last' = [op |-> op, err |-> err]
    /\ UNCHANGED <<queue_log, aspect_vars, machine_vars, tick, systems>>

\* The entity IDs a caller passes: those assigned so far and one never assigned.
EntityIDs == 0..next_entity_id

\* The dicts a caller can pass to create_entity: their keys in dict order.
KeyOrders == UNION {Orders(S) : S \in SUBSET ComponentNames}

\* The objects a caller built for an instantiated create_entity: a new
\* object of class clss[i] under keys[i].
SuppliedObjects(keys, clss) ==
    [i \in 1..Len(keys) |-> NewObject(clss[i], keys[i], next_entity_id)]

\* A NewComponentInfo: complete when it has both 'args' and 'kwargs'.
NewComponentInfos == [complete : BOOLEAN]

\* The (components, instantiated) arguments of create_entity, the dict given
\* as its keys in order and the values under them.
CreateArgs ==
    UNION {{[keys |-> keys, vals |-> infos, instantiated |-> FALSE]
              : infos \in [1..Len(keys) -> NewComponentInfos]}
           \cup {[keys |-> keys, vals |-> SuppliedObjects(keys, clss), instantiated |-> TRUE]
              : clss \in [1..Len(keys) -> Classes]}
           : keys \in KeyOrders}

\* No Aspect is under test.
NoAspectCall ==
    /\ tested_aspect = [mandatory |-> {}, optional |-> {}, either_or |-> {}]
    /\ tested_names = {}
    /\ other_aspect = [mandatory |-> {}, optional |-> {}, either_or |-> {}]
    /\ answer = <<>>

\* No iteration of the host loop has run, and no system's fields are followed.
NoTick ==
    /\ tick = [pending |-> {}, drained |-> <<>>, log |-> <<>>, err |-> "none"]
    /\ systems = EmptyDict

\* No PygameGame has been constructed.
NoGame == [done |-> FALSE, at |-> "None", began |-> EmptyDict, lifecycle |-> EmptyDict]

\* No GameStateMachine has been constructed.
NoMachine ==
    /\ states = {}
    /\ state = "None"
    /\ done = EmptyDict
    /\ next_state = EmptyDict
    /\ invoked = <<>>
    /\ game = NoGame

\* EntityManager(): a store with nothing registered, on which no call is made.
NoStore ==
    /\ entities = EmptyDict
    /\ components = EmptyDict
    /\ component_classes = EmptyDict
    /\ entities_to_remove = {}
    /\ next_entity_id = 0
    /\ created = <<>>

\* EntityManager(to_register): to_register is None or a dict of classes.
Init ==
    /\ entities = EmptyDict
    /\ \E S \in SUBSET ComponentNames :
          /\ component_classes = [n \in S |-> to_register[n]]
          /\ components = [n \in S |-> EmptyDict]
    /\ events = <<>>
    /\ entities_to_remove = {}
    /\ next_entity_id = 0
    /\ last = NoCall
    /\ created = <<>>
    /\ calls = 0
    /\ queue_log = <<>>
    /\ NoAspectCall
    /\ NoMachine
    /\ NoTick

RegisterComponent ==
    \E component_name \in ComponentNames :
        /\ Becomes(register_component(EM, component_name, to_register[component_name]))
        /\ Called("register_component", "none")
        /\ UNCHANGED created

CreateEntity ==
    \E a \in CreateArgs :
        LET r == create_entity(EM, a.keys, a.vals, a.instantiated)
        IN /\ Becomes(r.em)
           /\ Called("create_entity", r.err)
           /\ created' = IF r.err = "none" THEN Append(created, r.ret) ELSE created

AddComponentToEntity ==
    \E entity_id \in EntityIDs :
    \E component_name \in ComponentNames :
    \E new_component_info \in NewComponentInfos :
        LET r == add_component_to_entity(EM, entity_id, component_name, new_component_info)
        IN /\ Becomes(r.em)
           /\ Called("add_component_to_entity", r.err)
           /\ UNCHANGED created

RemoveEntityCall ==
    \E entity_id \in EntityIDs :
    \E immediate \in BOOLEAN :
    \E r \in remove_entity(EM, entity_id, immediate) :
        /\ Becomes(r.em)
        /\ Called("remove_entity", r.err)
        /\ UNCHANGED created

RemoveQueuedEntities ==
    \E r \in remove_queued_entities(EM) :
        /\ Becomes(r.em)
        /\ Called("remove_queued_entities", r.err)
        /\ UNCHANGED created

EventsGet ==
    LET r == get(events)
    IN /\ events' = r.events
       /\ Called("get", "none")
       /\ UNCHANGED <<entities, components, component_classes, entities_to_remove,
                      next_entity_id, created>>

Next ==
    \/ RegisterComponent
    \/ CreateEntity
    \/ AddComponentToEntity
    \/ RemoveEntityCall
    \/ RemoveQueuedEntities
    \/ EventsGet

Spec == Init /\ [][Next]_vars

----------------------------------------------------------------------------
(* Properties of the store. A property of a call is stated of every call   *)
(* that can be made in a reachable state: of the store the method leaves   *)
(* and the exception it raises there.                                      *)

Count(x, seq) == Cardinality({i \in DOMAIN seq : seq[i] = x})

\* Entity `e` has an entry in the component map of kind `k`.
HasEntry(em, k, e) == k \in DOMAIN em.components /\ e \in DOMAIN em.components[k]

\* C1: for every registered kind k and entity ID e, the component map of k
\* has an entry for e iff e is live and k is in e's attached-kind set.
C1_MapsAgreeWithAttached ==
    \A k \in registered_components(EM) : \A e \in EntityIDs :
        HasEntry(EM, k, e) <=> (e \in live_entities(EM) /\ k \in entities[e])

\* C2: a create_entity call that fails leaves the whole store unchanged.
C2_FailedCreateChangesNothing ==
    \A a \in CreateArgs :
        LET r == create_entity(EM, a.keys, a.vals, a.instantiated)
        IN r.err # "none" => r.em = EM

\* C3: after remove_entity(id, immediate=True) returns, id is not live and no
\* component map has an entry for id.
C3_RemovedEntityLeavesNoEntry ==
    \A entity_id \in EntityIDs : \A r \in remove_entity(EM, entity_id, TRUE) :
        r.err = "none" =>
            /\ entity_id \notin live_entities(r.em)
            /\ \A k \in DOMAIN r.em.components : ~HasEntry(r.em, k, entity_id)

\* C4: after add_component_to_entity(e, k, info) returns, k is in e's
\* attached-kind set and get_entity(e) maps k to the new instance.
C4_AddedComponentIsAttached ==
    \A entity_id \in EntityIDs : \A k \in ComponentNames : \A info \in NewComponentInfos :
        LET r == add_component_to_entity(EM, entity_id, k, info)
            got == get_entity(r.em, entity_id)
        IN r.err = "none" =>
            /\ k \in r.em.entities[entity_id]
            /\ got.err = "none"
            /\ k \in DOMAIN got.entity
            /\ got.entity[k] = NewObject(component_classes[k], k, entity_id)

\* C5: remove_queued_entities() returns without an exception, and then the
\* pending-removal set is empty and no entity that was pending is live.
C5_FlushAlwaysCompletes ==
    \A r \in remove_queued_entities(EM) :
        /\ r.err = "none"
        /\ r.em.entities_to_remove = {}
        /\ entities_to_remove \cap live_entities(r.em) = {}

\* C6: the IDs returned by successful create_entity calls are strictly
\* increasing, so no ID is assigned twice.
C6_CreatedIdsIncrease ==
    \A i, j \in DOMAIN created : i < j => created[i] < created[j]

\* Two entities were created, the second after the first was removed.
C6_Witness ==
    /\ last = [op |-> "create_entity", err |-> "none"]
    /\ Len(created) >= 2
    /\ created[1] \notin live_entities(EM)

\* C7: a successful create_entity returns an ID that was not live, makes it
\* live with exactly the supplied kinds attached, appends one EntityAdded
\* event carrying it, and changes no other entity's attached set or entries.
C7_CreateAddsOneEntity ==
    \A a \in CreateArgs :
        LET r == create_entity(EM, a.keys, a.vals, a.instantiated)
        IN r.err = "none" =>
            /\ r.ret \notin live_entities(EM)
            /\ live_entities(r.em) = live_entities(EM) \cup {r.ret}
            /\ r.em.entities[r.ret] = Range(a.keys)
            /\ r.em.events = events \o <<EntityAdded(r.ret)>>
            /\ \A e \in live_entities(EM) : r.em.entities[e] = entities[e]
            /\ DOMAIN r.em.components = DOMAIN components
            /\ \A k \in DOMAIN components : \A e \in EntityIDs \ {r.ret} :
                   /\ HasEntry(r.em, k, e) <=> HasEntry(EM, k, e)
                   /\ HasEntry(EM, k, e) => r.em.components[k][e] = components[k][e]

\* A create_entity call returned while another entity was live.
C7_Witness ==
    /\ last = [op |-> "create_entity", err |-> "none"]
    /\ Cardinality(live_entities(EM)) >= 2
    /\ \E e \in live_entities(EM) : entities[e] # {}

\* C8: create_entity with a kind name that is not registered raises
\* InvalidComponentNameError, creates no entity, leaves the ID counter
\* unchanged and pushes no event.
C8_UnregisteredKindRejected ==
    \A a \in CreateArgs :
        LET r == create_entity(EM, a.keys, a.vals, a.instantiated)
        IN ~(Range(a.keys) \subseteq registered_components(EM)) =>
            /\ r.err = "InvalidComponentNameError"
            /\ r.em.entities = entities
            /\ r.em.next_entity_id = next_entity_id
            /\ r.em.events = events

\* A create_entity call was rejected for its kind names, with entities in the store.
C8_Witness ==
    /\ last = [op |-> "create_entity", err |-> "InvalidComponentNameError"]
    /\ live_entities(EM) # {}

\* C9: remove_entity(id, immediate=False) on a live entity changes nothing
\* but the pending-removal set, to which it adds id.
C9_DeferredRemovalOnlyMarks ==
    \A entity_id \in live_entities(EM) : \A r \in remove_entity(EM, entity_id, FALSE) :
        /\ r.err = "none"
        /\ r.em = [EM EXCEPT !.entities_to_remove = @ \cup {entity_id}]

\* A deferred remove_entity returned: its entity is pending and still live,
\* with its components stored.
C9_Witness ==
    /\ last = [op |-> "remove_entity", err |-> "none"]
    /\ \E e \in entities_to_remove \cap live_entities(EM) :
          \E k \in entities[e] : HasEntry(EM, k, e)

\* C10: after remove_entity(id, immediate=True) returns, the next drain of
\* the event queue holds exactly one RemoveEntity event carrying id.
C10_OneRemoveEventInNextDrain ==
    \A entity_id \in EntityIDs : \A r \in remove_entity(EM, entity_id, TRUE) :
        r.err = "none" => Count(RemoveEntity(entity_id), get(r.em.events).to_return) = 1

----------------------------------------------------------------------------
(* SpecQueue: an EntityManagerEventQueue under push and get calls.         *)

\* The queue is checked under at most this many calls.
MaxQueueCalls == 4

\* The events pushed in SpecQueue.
QueueEvents == {EntityAdded(0), RemoveEntity(0), EntityAdded(1)}

QueueCall(op, event_obj, returned) == [op |-> op, event |-> event_obj, ret |-> returned]

QueueInit ==
    /\ NoStore
    /\ events = <<>>
    /\ queue_log = <<>>
    /\ last = NoCall
    /\ calls = 0
    /\ NoAspectCall
    /\ NoMachine
    /\ NoTick

QueuePush ==
    \E event_obj \in QueueEvents :
        /\ Len(queue_log) < MaxQueueCalls
        /\ events' = push(events, event_obj)
        /\ queue_log' = Append(queue_log, QueueCall("push", event_obj, <<>>))
        /\ UNCHANGED <<entities, components, component_classes, entities_to_remove,
                       next_entity_id, created, last, calls, aspect_vars, machine_vars, tick, systems>>

QueueGet ==
    LET r == get(events)
    IN /\ Len(queue_log) < MaxQueueCalls
       /\ events' = r.events
       /\ queue_log' = Append(queue_log, QueueCall("get", "None", r.to_return))
       /\ UNCHANGED <<entities, components, component_classes, entities_to_remove,
                      next_entity_id, created, last, calls, aspect_vars, machine_vars, tick, systems>>

QueueNext ==
    \/ QueuePush
    \/ QueueGet

SpecQueue == QueueInit /\ [][QueueNext]_vars

\* The events pushed by the calls of `log`, in push order.
RECURSIVE Pushed(_)
Pushed(log) ==
    IF log = <<>> THEN <<>>
    ELSE (IF Head(log).op = "push" THEN <<Head(log).event>> ELSE <<>>) \o Pushed(Tail(log))

\* The lists returned by the get calls of `log`, concatenated in call order.
RECURSIVE Returned(_)
Returned(log) ==
    IF log = <<>> THEN <<>>
    ELSE (IF Head(log).op = "get" THEN Head(log).ret ELSE <<>>) \o Returned(Tail(log))

\* The events pushed before call i of `log` and after the latest get before it.
PushedSinceGet(log, i) ==
    LET gets == {j \in 1..(i - 1) : log[j].op = "get"}
        from == IF gets = {} THEN 1 ELSE 1 + CHOOSE j \in gets : \A k \in gets : k <= j
    IN Pushed(SubSeq(log, from, i - 1))

\* C11: the lists returned by get so far, concatenated in call order and
\* followed by the events still buffered, are the events pushed so far in
\* push order: nothing is lost, duplicated or reordered.
C11_QueueIsFifo == Returned(queue_log) \o events = Pushed(queue_log)

\* A get returned two events, and an event pushed after it is buffered.
C11_Witness ==
    /\ events # <<>>
    /\ \E i \in DOMAIN queue_log : queue_log[i].op = "get" /\ Len(queue_log[i].ret) >= 2

\* C12: get returns everything buffered and leaves the buffer empty: of two
\* get calls in succession the first returns all the buffered events and the
\* second the empty list.
C12_GetDrains ==
    \A i \in DOMAIN queue_log :
        queue_log[i].op = "get" =>
            /\ queue_log[i].ret = PushedSinceGet(queue_log, i)
            /\ i = Len(queue_log) => events = <<>>
            /\ (i < Len(queue_log) /\ queue_log[i + 1].op = "get") => queue_log[i + 1].ret = <<>>

\* get was called twice in succession after events were pushed.
C12_Witness ==
    \E i \in DOMAIN queue_log :
        /\ i < Len(queue_log)
        /\ queue_log[i].op = "get" /\ queue_log[i].ret # <<>>
        /\ queue_log[i + 1].op = "get"

----------------------------------------------------------------------------
(* SpecAspect: Aspect.is_matched applied to an aspect and a set of names.  *)

\* An aspect has at most this many either-or groups.
MaxGroups == 2

\* The component names aspects and tested sets are built from.
AspectNames == ComponentNames \cup {"Right"}

\* Aspect.__init__: the three arguments frozen into sets.
Aspect(mandatory, optional, either_or) ==
    [mandatory |-> mandatory, optional |-> optional, either_or |-> either_or]

Aspects ==
    {Aspect(m, o, x) : m \in SUBSET AspectNames, o \in SUBSET AspectNames,
                       x \in {gs \in SUBSET (SUBSET AspectNames) : Cardinality(gs) <= MaxGroups}}

\* Aspect.flat_either_or
flat_either_or(pattern) == UNION pattern.either_or

\* Aspect.all
all(pattern) == pattern.mandatory \cup pattern.optional \cup flat_either_or(pattern)

\* Python's all() over the values a generator yields.
all_true(bools) == \A b \in bools : b

\* _xor with a group passing when any of its members is present.
_xor_some(pattern, names) ==
    {Cardinality(names \cap options) >= 1 : options \in pattern.either_or}

\* Aspect._xor: the values yielded, one per either-or group.
_xor(pattern, names) ==
    {Cardinality(names \cap options) = 1 : options \in pattern.either_or}

\* Aspect.is_matched
is_matched(pattern, names) ==
    /\ pattern.mandatory \subseteq names
    /\ all_true(_xor(pattern, names))

\* xor yielding nothing: no either-or pick reaches the view.
xor_nothing(pattern, names) == {}

\* Aspect.xor: the names yielded, the single present member of each group.
xor(pattern, names) ==
    {CHOOSE n \in names \cap options : TRUE :
        options \in {g \in pattern.either_or : Cardinality(names \cap g) = 1}}

AspectInit ==
    /\ NoStore
    /\ events = <<>>
    /\ queue_log = <<>>
    /\ last = NoCall
    /\ calls = 0
    /\ NoMachine
    /\ NoTick
    /\ tested_aspect \in Aspects
    /\ tested_names \in SUBSET AspectNames
    /\ other_aspect = [mandatory |-> {}, optional |-> {}, either_or |-> {}]
    /\ answer = <<>>

IsMatched ==
    /\ answer = <<>>
    /\ answer' = <<is_matched(tested_aspect, tested_names)>>
    /\ UNCHANGED <<store_vars, queue_log, last, calls, tested_aspect, tested_names,
                   other_aspect, machine_vars, tick, systems>>

AspectNext == IsMatched

SpecAspect == AspectInit /\ [][AspectNext]_vars

\* C13: is_matched(S) is true iff S holds every mandatory name and exactly
\* one member of every either-or group; the optional names do not influence
\* the result.
C13_IsMatchedProperty ==
    answer # <<>> =>
        /\ answer[1] <=>
              /\ \A n \in tested_aspect.mandatory : n \in tested_names
              /\ \A g \in tested_aspect.either_or :
                    \E n \in g : n \in tested_names /\ \A m \in g \ {n} : m \notin tested_names
        /\ \A o \in SUBSET AspectNames :
              is_matched(Aspect(tested_aspect.mandatory, o, tested_aspect.either_or),
                         tested_names) = answer[1]

\* An aspect with two either-or groups and an absent optional name matched
\* a set that holds a name outside the aspect's mandatory names.
C13_Witness ==
    /\ answer = <<TRUE>>
    /\ Cardinality(tested_aspect.either_or) = 2
    /\ tested_aspect.mandatory # {}
    /\ tested_aspect.optional \ tested_names # {}

----------------------------------------------------------------------------
(* EntityManager queries by aspect *)

\* The aspects queried in Spec: built from the names of ComponentNames.
StoreAspects ==
    {Aspect(m, o, x) : m \in SUBSET ComponentNames, o \in SUBSET ComponentNames,
                       x \in {gs \in SUBSET (SUBSET ComponentNames) : Cardinality(gs) <= MaxGroups}}

\* The entity view both query methods build: the attached names that are
\* mandatory, optional or an either-or pick, each mapped to the stored
\* object; `self.components[name][entity_id]` raises KeyError when the
\* map of `name` has no entry for the entity.
entity_view(em, entity_id, pattern) ==
    LET entity_component_names == em.entities[entity_id]
        selected == {name \in entity_component_names :
                        \/ name \in pattern.mandatory \cup pattern.optional
                        \/ name \in xor(pattern, entity_component_names)}
    IN IF \E name \in selected : entity_id \notin DOMAIN em.components[name]
       THEN [em |-> em, err |-> "KeyError", found |-> FALSE, view |-> EmptyDict]
       ELSE [em |-> em, err |-> "none", found |-> TRUE,
             view |-> [name \in selected |-> em.components[name][entity_id]]]

\* EntityManager._group_entity_pattern_match
group_entity_pattern_match(em, pattern) ==
    LET filter_func(c, p) == is_component_names_valid(em, c \cup p) /\ p \subseteq c
        matching_mandatory_entities ==
            {entity_id \in DOMAIN em.entities : filter_func(em.entities[entity_id], pattern.mandatory)}
        matching_xor_entities ==
            {entity_id \in DOMAIN em.entities : all_true(_xor(pattern, em.entities[entity_id]))}
    IN matching_mandatory_entities \cap matching_xor_entities

\* EntityManager._get_matching_entity_no_optional
get_matching_entity_no_optional(em, entity_id, pattern) ==
    IF entity_id \notin DOMAIN em.entities
    THEN [em |-> em, err |-> "InvalidEntityIDError", found |-> FALSE, view |-> EmptyDict]
    ELSE entity_view(em, entity_id, pattern)

\* EntityManager.get_matching_entities: `ret` is the dict returned.  The
\* matching IDs are live, so a view that fails fails with KeyError.
get_matching_entities(em, pattern) ==
    IF ~is_component_names_valid(em, all(pattern))
    THEN [em |-> em, err |-> "InvalidComponentNameError", ret |-> EmptyDict]
    ELSE LET matching_entities == group_entity_pattern_match(em, pattern)
             entity_views == [entity_id \in matching_entities |->
                                 get_matching_entity_no_optional(em, entity_id, pattern)]
         IN IF \E entity_id \in matching_entities : entity_views[entity_id].err # "none"
            THEN [em |-> em, err |-> "KeyError", ret |-> EmptyDict]
            ELSE [em |-> em, err |-> "none",
                  ret |-> [entity_id \in matching_entities |-> entity_views[entity_id].view]]

\* EntityManager.get_matching_entity: found = FALSE with no error is the
\* None the method returns for a live entity that fails the aspect.
get_matching_entity(em, entity_id, pattern) ==
    IF ~is_component_names_valid(em, all(pattern))
    THEN [em |-> em, err |-> "InvalidComponentNameError", found |-> FALSE, view |-> EmptyDict]
    ELSE IF entity_id \notin DOMAIN em.entities
    THEN [em |-> em, err |-> "InvalidEntityIDError", found |-> FALSE, view |-> EmptyDict]
    ELSE IF is_matched(pattern, em.entities[entity_id])
    THEN entity_view(em, entity_id, pattern)
    ELSE [em |-> em, err |-> "none", found |-> FALSE, view |-> EmptyDict]

\* C14: for every aspect whose names are all registered,
\* get_matching_entities returns an entry for exactly the live IDs whose
\* attached-kind set satisfies is_matched.
C14_MatchingEntitiesAreTheMatched ==
    \A pattern \in StoreAspects :
        is_component_names_valid(EM, all(pattern)) =>
            LET r == get_matching_entities(EM, pattern)
            IN /\ r.err = "none"
               /\ DOMAIN r.ret = {entity_id \in live_entities(EM) :
                                     is_matched(pattern, entities[entity_id])}

\* C15: get_matching_entity with a valid aspect returns a view for a live
\* matching entity, None for a live entity that fails the aspect, and the
\* unknown-entity error for an ID that is not live, all without changing
\* the store; for a live ID it returns a view exactly when the ID is a key
\* of get_matching_entities, and then the two views are equal.
C15_MatchingEntityAgrees ==
    \A pattern \in StoreAspects : \A entity_id \in EntityIDs :
        is_component_names_valid(EM, all(pattern)) =>
            LET r == get_matching_entity(EM, entity_id, pattern)
                group == get_matching_entities(EM, pattern)
            IN /\ r.em = EM
               /\ entity_id \notin DOMAIN entities => r.err = "InvalidEntityIDError"
               /\ entity_id \in DOMAIN entities =>
                     /\ r.err = "none"
                     /\ r.found <=> is_matched(pattern, entities[entity_id])
                     /\ group.err = "none"
                     /\ r.found <=> entity_id \in DOMAIN group.ret
                     /\ r.found => r.view = group.ret[entity_id]

\* C16: for an ID that is not live, remove_entity in either mode,
\* get_entity, get_matching_entity with a valid aspect and
\* add_component_to_entity each raise InvalidEntityIDError and leave the
\* store, the pending-removal set and the event queue as they were.
C16_UnknownIdRejected ==
    \A entity_id \in EntityIDs \ DOMAIN entities :
        /\ \A immediate \in BOOLEAN : \A r \in remove_entity(EM, entity_id, immediate) :
              r = [em |-> EM, err |-> "InvalidEntityIDError"]
        /\ LET r == get_entity(EM, entity_id)
           IN r.err = "InvalidEntityIDError" /\ r.em = EM
        /\ \A pattern \in StoreAspects :
              is_component_names_valid(EM, all(pattern)) =>
                  LET r == get_matching_entity(EM, entity_id, pattern)
                  IN r.err = "InvalidEntityIDError" /\ r.em = EM
        /\ \A component_name \in ComponentNames : \A info \in NewComponentInfos :
              add_component_to_entity(EM, entity_id, component_name, info)
                  = [em |-> EM, err |-> "InvalidEntityIDError"]

\* remove_entity was called with the ID of an entity removed before, and
\* raised, while another entity is live.
C16_Witness ==
    /\ last = [op |-> "remove_entity", err |-> "InvalidEntityIDError"]
    /\ \E entity_id \in 0..(next_entity_id - 1) : entity_id \notin DOMAIN entities
    /\ entities # EmptyDict

----------------------------------------------------------------------------
(* SpecMachine: a GameStateMachine driven by update_state and by the       *)
(* events handed to the active state.  The state objects are registered    *)
(* under their own names, as main() builds the dict; a state changes its   *)
(* own done and next_state in update and handle_event only.                *)

\* The machine is checked under at most this many calls.
MaxMachineCalls == 5

\* The names of the GameState objects; "C" is never a key of the dict.
StateNames == {"A", "B", "C"}
RegistrableNames == {"A", "B"}

\* The machine as a record of its fields and of its states' fields.
M == [states |-> states, state |-> state, done |-> done, next_state |-> next_state]

\* What the body of a state's update or handle_event assigns to its own
\* done and next_state (a body that assigns nothing keeps the values held).
Effects == [done : BOOLEAN, next_state : StateNames \cup {"None"}]

body(m, effect) ==
    [m EXCEPT !.done[m.state] = effect.done, !.next_state[m.state] = effect.next_state]

\* self.state.<cb>(...): the callback, its receiver and the receiver's done
\* flag at the moment of the call, appended to the calls made so far.
invoke(log, m, cb) == Append(log, [cb |-> cb, on |-> m.state, done |-> m.done[m.state]])

\* __init__ without the lookup of init_state in the dict.
GameStateMachine_unchecked(the_states, init_state) ==
    [err |-> "none", state |-> init_state]

\* GameStateMachine.__init__
GameStateMachine(the_states, init_state) ==
    IF init_state \notin the_states
    THEN [err |-> "StateMachineError", state |-> "None"]
    ELSE [err |-> "none", state |-> init_state]

\* `self.state.done = False` left out of change_state.
reset_done_skipped(m) == m

\* change_state, line 52: self.state.done = False
reset_done(m) == [m EXCEPT !.done[m.state] = FALSE]

\* change_state with the swap of self.state made before the cleanup call.
change_state_swap_first(m) ==
    IF m.next_state[m.state] = "None"
    THEN [m |-> m, log |-> <<>>, err |-> "AttributeError"]
    ELSE LET the_next_state == m.next_state[m.state]
         IN IF the_next_state \notin m.states
            THEN [m |-> m, log |-> <<>>, err |-> "KeyError"]
            ELSE LET m1 == [m EXCEPT !.state = the_next_state]
                     m2 == reset_done(m1)
                 IN [m |-> m2, log |-> invoke(invoke(<<>>, m1, "cleanup"), m2, "setup"),
                     err |-> "none"]

\* GameStateMachine.change_state: the machine left, the callbacks made and
\* the exception raised.  Reading `.name` of a next_state that is None
\* raises AttributeError; `self.states[next_state]` raises KeyError.
change_state(m) ==
    IF m.next_state[m.state] = "None"
    THEN [m |-> m, log |-> <<>>, err |-> "AttributeError"]
    ELSE LET the_next_state == m.next_state[m.state]
             log1 == invoke(<<>>, m, "cleanup")
             m1 == reset_done(m)
         IN IF the_next_state \notin m1.states
            THEN [m |-> m1, log |-> log1, err |-> "KeyError"]
            ELSE LET m2 == [m1 EXCEPT !.state = the_next_state]
                 IN [m |-> m2, log |-> invoke(log1, m2, "setup"), err |-> "none"]

\* update_state calling update on the state active when the call began.
update_state_old_first(m, effect) ==
    LET m1 == body(m, effect)
        changed == IF m.done[m.state] THEN change_state(m1)
                   ELSE [m |-> m1, log |-> <<>>, err |-> "none"]
    IN [changed EXCEPT !.log = invoke(<<>>, m, "update") \o @]

\* GameStateMachine.update_state; `effect` is what the update called does.
update_state(m, effect) ==
    LET changed == IF m.done[m.state] THEN change_state(m)
                   ELSE [m |-> m, log |-> <<>>, err |-> "none"]
    IN IF changed.err # "none" THEN changed
       ELSE [m |-> body(changed.m, effect),
             log |-> invoke(changed.log, changed.m, "update"),
             err |-> "none"]

\* BaseGame.event_loop, one event: the active state's handle_event.
handle_event(m, effect) ==
    [m |-> body(m, effect), log |-> invoke(<<>>, m, "handle_event"), err |-> "none"]

\* The state objects are built (GameState.__init__) and some of them put in
\* the dict; no machine is built yet.
MachineInit ==
    /\ NoStore
    /\ events = <<>>
    /\ queue_log = <<>>
    /\ NoAspectCall
    /\ NoTick
    /\ last = NoCall
    /\ calls = 0
    /\ states \in SUBSET RegistrableNames
    /\ state = "None"
    /\ done = [n \in StateNames |-> FALSE]
    /\ next_state = [n \in StateNames |-> "None"]
    /\ invoked = <<>>
    /\ game = NoGame

MachineCalled(op, err) ==
    /\ calls < MaxMachineCalls
    /\ calls' = calls + 1
    /\ last' = [op |-> op, err |-> err]
    /\ UNCHANGED <<store_vars, queue_log, aspect_vars, states, tick, systems, game>>

MachineBecomes(r) ==
    /\ state' = r.m.state
    /\ done' = r.m.done
    /\ next_state' = r.m.next_state
    /\ invoked' = r.log

Construct ==
    \E init_state \in StateNames :
        LET r == GameStateMachine(states, init_state)
        IN /\ state = "None"
           /\ state' = r.state
           /\ invoked' = <<>>
           /\ UNCHANGED <<done, next_state>>
           /\ MachineCalled("GameStateMachine", r.err)

UpdateState ==
    \E effect \in Effects :
        LET r == update_state(M, effect)
        IN /\ state # "None"
           /\ MachineBecomes(r)
           /\ MachineCalled("update_state", r.err)

HandleEvent ==
    \E effect \in Effects :
        LET r == handle_event(M, effect)
        IN /\ state # "None"
           /\ MachineBecomes(r)
           /\ MachineCalled("handle_event", r.err)

MachineNext ==
    \/ Construct
    \/ UpdateState
    \/ HandleEvent

SpecMachine == MachineInit /\ [][MachineNext]_vars

\* The positions in `log` of the calls of callback cb.
Calls(log, cb) == {i \in DOMAIN log : log[i].cb = cb}

\* The active state is done and names a registered successor.
TransitionDue == state # "None" /\ done[state] /\ next_state[state] \in states

\* C17: when update_state finds the active state A done with a registered
\* successor B, it calls A.cleanup first, then makes B the active state,
\* then calls B.setup; no other setup or cleanup is called.
C17_CleanupSwapSetup ==
    TransitionDue =>
        \A effect \in Effects :
            LET r == update_state(M, effect)
            IN /\ r.err = "none"
               /\ r.m.state = next_state[state]
               /\ Calls(r.log, "cleanup") = {1}
               /\ r.log[1].on = state
               /\ Calls(r.log, "setup") = {2}
               /\ r.log[2].on = next_state[state]

\* update_state moved the machine from one state to another one.
C17_Witness ==
    /\ last = [op |-> "update_state", err |-> "none"]
    /\ Len(invoked) = 3
    /\ invoked[1].cb = "cleanup" /\ invoked[2].cb = "setup"
    /\ invoked[1].on # invoked[2].on
    /\ state = invoked[2].on

\* C18: in every transition, a state's transition to itself and a return
\* to an earlier state included, the outgoing state's done is false when
\* change_state is over and the incoming state's done is false when its
\* setup is called.
C18_DoneFalseAcrossTransition ==
    TransitionDue =>
        LET r == change_state(M)
        IN /\ r.err = "none"
           /\ r.m.done[state] = FALSE
           /\ r.log[2].cb = "setup" /\ r.log[2].on = r.m.state
           /\ r.log[2].done = FALSE

\* update_state made a done state its own successor: cleanup saw it done,
\* setup saw it not done.
C18_Witness ==
    /\ last = [op |-> "update_state", err |-> "none"]
    /\ Len(invoked) = 3
    /\ invoked[1].cb = "cleanup" /\ invoked[1].done
    /\ invoked[2].cb = "setup" /\ ~invoked[2].done
    /\ invoked[1].on = invoked[2].on

\* What C19 says of one update_state call with result r.
UpdateOnceOnActive(r) ==
    /\ Calls(r.log, "update") = {Len(r.log)}
    /\ r.log[Len(r.log)].on = r.m.state
    /\ ~done[state] =>
          /\ Calls(r.log, "cleanup") = {} /\ Calls(r.log, "setup") = {}
          /\ r.m.state = state
    /\ done[state] =>
          /\ Len(r.log) = 3
          /\ r.log[2].cb = "setup" /\ r.log[2].on = r.log[3].on
          /\ r.log[3].on = next_state[state]

\* C19 as stated: every update_state call invokes update exactly once, on
\* the state active at the end of the call; with done false no cleanup or
\* setup is called and the active state stays, with done true update goes
\* to the incoming state after its setup.
C19_EveryCallUpdatesOnce ==
    state # "None" =>
        \A effect \in Effects : UpdateOnceOnActive(update_state(M, effect))

\* C19, amended: every update_state call that returns invokes update
\* exactly once, as above; a call whose transition raises (successor
\* missing or not registered) invokes no update at all.
C19_ReturningCallUpdatesOnce ==
    state # "None" =>
        \A effect \in Effects :
            LET r == update_state(M, effect)
            IN /\ r.err = "none" => UpdateOnceOnActive(r)
               /\ r.err # "none" => Calls(r.log, "update") = {}
               /\ r.err = "none" <=> (~done[state] \/ next_state[state] \in states)

\* update_state returned after a transition, its update called on the
\* incoming state and changing that state's fields.
C19_Witness ==
    /\ last = [op |-> "update_state", err |-> "none"]
    /\ Len(invoked) = 3
    /\ invoked[3] = [cb |-> "update", on |-> state, done |-> FALSE]
    /\ invoked[2].on = state
    /\ done[state] /\ next_state[state] = "C"

\* C20: an unregistered state name is rejected.  The constructor raises
\* StateMachineError for an init_state that is no key of the dict;
\* update_state on a done state whose successor is no key raises the
\* KeyError of the dict lookup, calls no setup and leaves a registered
\* state active.
C20_UnregisteredNameRejected ==
    /\ \A init_state \in StateNames \ states :
          GameStateMachine(states, init_state) = [err |-> "StateMachineError", state |-> "None"]
    /\ state # "None" => state \in states
    /\ (state # "None" /\ done[state] /\ next_state[state] \in StateNames \ states) =>
          \A effect \in Effects :
              LET r == update_state(M, effect)
              IN /\ r.err = "KeyError"
                 /\ Calls(r.log, "setup") = {}
                 /\ r.m.state \in states

\* update_state raised for a successor that is not registered, and the
\* state that named it is still the active one.
C20_Witness ==
    /\ last = [op |-> "update_state", err |-> "KeyError"]
    /\ state \in states
    /\ next_state[state] \notin states
    /\ Calls(invoked, "setup") = {}

----------------------------------------------------------------------------
(* SpecTick: the store under a host that creates and removes entities and  *)
(* runs iterations of PygameGame.run with CombatState active and the       *)
(* systems of main().                                                      *)

\* The keys of game_systems in main(), in the order the dict literal
\* inserts them, which is the order systems.values() yields them in.
game_systems ==
    <<"PlayerInputsHandlerCombatSystem", "DrawSystem", "PhysicsSimulationSystem",
      "AssetsManagerSystem", "TextLinksSystem", "MovementApplySystem">>

\* One thing an iteration did: a call on the store, on the queue or on a system.
Step(step, system, event_obj) == [step |-> step, system |-> system, event |-> event_obj]

\* <System>.handle_event(entity_manager, event): the exception it raises.
\* AssetsManagerSystem passes.  The other five forget the entity on a
\* RemoveEntity event; on an EntityAdded event they call
\* get_matching_entity(entity_id, self._with_components) with a set of
\* names for the Aspect, and `pattern.all` of a set raises AttributeError
\* before anything is stored in the system.
system_handle_event(system, em, event_obj) ==
    IF system = "AssetsManagerSystem" THEN "none"
    ELSE IF event_obj.id = RemoveEntityID THEN "none"
    ELSE IF event_obj.id = EntityAddedID THEN "AttributeError"
    ELSE "RuntimeError"

\* CombatState.update, lines 99-101: the nested loops from the n-th
\* (event, system) pair on; the first handler that raises ends them.
RECURSIVE dispatch(_, _, _, _)
dispatch(em, evs, order, n) ==
    IF n = Len(evs) * Len(order) THEN [log |-> <<>>, err |-> "none"]
    ELSE LET event_obj == evs[(n \div Len(order)) + 1]
             system_obj == order[(n % Len(order)) + 1]
             raised == system_handle_event(system_obj, em, event_obj)
             entry == Step("handle_event", system_obj, event_obj)
         IN IF raised # "none" THEN [log |-> <<entry>>, err |-> raised]
            ELSE LET rest == dispatch(em, evs, order, n + 1)
                 IN [log |-> <<entry>> \o rest.log, err |-> rest.err]

\* The per-tick work of the three domain systems, lines 102-104.  No
\* EntityAdded handler ever returns, so the systems hold no entity and the
\* calls change nothing in the store.
domain_systems ==
    <<Step("handle_text_links", "TextLinksSystem", "None"),
      Step("apply_movement_flags", "MovementApplySystem", "None"),
      Step("simulate_physics", "PhysicsSimulationSystem", "None")>>

\* update with the queue drained before the queued removals are flushed.
update_drain_first(em, order) ==
    {LET drained == get(em.events)
         dispatched == dispatch(flushed.em, drained.to_return, order, 0)
         steps == <<Step("get", "None", "None"), Step("remove_queued_entities", "None", "None")>>
     IN [em |-> flushed.em, drained |-> drained.to_return,
         log |-> steps \o dispatched.log \o
                 (IF dispatched.err = "none" /\ flushed.err = "none" THEN domain_systems ELSE <<>>),
         err |-> IF flushed.err # "none" THEN flushed.err ELSE dispatched.err]
     : flushed \in remove_queued_entities(em)}

\* CombatState.update: the outcomes, one for each way the flush can go.
update(em, order) ==
    {IF flushed.err # "none"
     THEN [em |-> flushed.em, drained |-> <<>>,
           log |-> <<Step("remove_queued_entities", "None", "None")>>, err |-> flushed.err]
     ELSE LET drained == get(flushed.em.events)
              em1 == [flushed.em EXCEPT !.events = drained.events]
              dispatched == dispatch(em1, drained.to_return, order, 0)
              steps == <<Step("remove_queued_entities", "None", "None"),
                         Step("get", "None", "None")>> \o dispatched.log
          IN IF dispatched.err # "none"
             THEN [em |-> em1, drained |-> drained.to_return, log |-> steps,
                   err |-> dispatched.err]
             ELSE [em |-> em1, drained |-> drained.to_return,
                   log |-> steps \o domain_systems, err |-> "none"]
     : flushed \in remove_queued_entities(em)}

\* One iteration of the loop of PygameGame.run: update_state, whose active
\* state is never done, then draw_state; an exception leaves the loop.
run_once(em, order) ==
    {IF updated.err # "none" THEN updated
     ELSE [updated EXCEPT !.log = Append(@, Step("draw", "DrawSystem", "None"))]
     : updated \in update(em, order)}

Tick ==
    \E r \in run_once(EM, game_systems) :
        /\ Becomes(r.em)
        /\ tick' = [pending |-> entities_to_remove, drained |-> r.drained,
                    log |-> r.log, err |-> r.err]
        /\ calls < MaxCalls
        /\ calls' = calls + 1
        /\ last' = [op |-> "run", err |-> r.err]
        /\ UNCHANGED <<created, queue_log, aspect_vars, machine_vars, systems>>

TickNext ==
    \/ CreateEntity
    \/ RemoveEntityCall
    \/ Tick

SpecTick == Init /\ [][TickNext]_vars

\* The positions in the latest iteration's log of the steps named in S.
StepsAt(S) == {i \in DOMAIN tick.log : tick.log[i].step \in S}

DomainSteps == {"handle_text_links", "apply_movement_flags", "simulate_physics"}

\* The events `system` was handed in `log`, in the order it got them.
RECURSIVE Received(_, _)
Received(log, system) ==
    IF log = <<>> THEN <<>>
    ELSE (IF Head(log).step = "handle_event" /\ Head(log).system = system
          THEN <<Head(log).event>> ELSE <<>>) \o Received(Tail(log), system)

\* C21: within an iteration, remove_queued_entities is over before the
\* queue is drained, every drained event has been handed to every system
\* before any of the three domain systems runs, and the domain systems have
\* all run before the draw call.
C21_TickOrder ==
    /\ \A i \in StepsAt({"remove_queued_entities"}) : \A j \in StepsAt({"get"}) : i < j
    /\ StepsAt({"get"}) # {} => StepsAt({"remove_queued_entities"}) # {}
    /\ \A i \in StepsAt({"handle_event"}) : \A j \in StepsAt(DomainSteps) : i < j
    /\ StepsAt(DomainSteps) # {} =>
          \A system \in Range(game_systems) : Received(tick.log, system) = tick.drained
    /\ \A i \in StepsAt(DomainSteps) : \A j \in StepsAt({"draw"}) : i < j
    /\ StepsAt({"draw"}) # {} => Cardinality(StepsAt(DomainSteps)) = 3

\* An iteration ran to its draw call after handing drained events to the
\* systems.
C21_Witness ==
    /\ last = [op |-> "run", err |-> "none"]
    /\ tick.drained # <<>>
    /\ StepsAt({"draw"}) # {}

\* C22: every event drained in an iteration is handed to handle_event of
\* every system exactly once, each system getting the events in the order
\* they were pushed.
C22_EveryEventToEverySystem ==
    \A system \in Range(game_systems) : Received(tick.log, system) = tick.drained

\* C27: every entity that is marked for deferred removal when an iteration
\* starts is no longer live after the iteration's flush, and its
\* RemoveEntity event is handed to every system in that same iteration.
C27_PendingRemovedInNextTick ==
    last.op = "run" =>
        \A entity_id \in tick.pending :
            /\ entity_id \notin live_entities(EM)
            /\ \A system \in Range(game_systems) :
                  \E i \in StepsAt({"handle_event"}) :
                      /\ tick.log[i].system = system
                      /\ tick.log[i].event = RemoveEntity(entity_id)

----------------------------------------------------------------------------
(* Claims on stored instances and on registration, checked under Spec. *)

\* The dict a caller passes to create_entity, from its keys and values.
Supplied(a) == [k \in Range(a.keys) |-> a.vals[CHOOSE i \in DOMAIN a.keys : a.keys[i] = k]]

\* C23: after create_entity(components, instantiated=True) returns id,
\* get_entity(id) is the supplied mapping; and in every state, for each
\* kind K attached to a live entity e, get_entity(e)[K] and every query
\* view that contains K hold the instance written for (K, e).
C23_StoragePreservesIdentity ==
    /\ \A a \in CreateArgs :
          a.instantiated =>
              LET r == create_entity(EM, a.keys, a.vals, a.instantiated)
                  got == get_entity(r.em, r.ret)
              IN r.err = "none" => (got.err = "none" /\ got.entity = Supplied(a))
    /\ \A entity_id \in live_entities(EM) : \A k \in entities[entity_id] :
          LET got == get_entity(EM, entity_id)
          IN /\ got.err = "none"
             /\ got.entity[k].oid = <<k, entity_id>>
             /\ \A pattern \in StoreAspects :
                   is_component_names_valid(EM, all(pattern)) =>
                       LET v == get_matching_entity(EM, entity_id, pattern)
                       IN /\ v.err = "none"
                          /\ (v.found /\ k \in DOMAIN v.view) => v.view[k] = got.entity[k]

\* C24: registering a name that is already registered, with the same
\* class, leaves the store as it was.
C24_ReRegistrationChangesNothing ==
    \A component_name \in registered_components(EM) :
        register_component(EM, component_name, component_classes[component_name]) = EM

----------------------------------------------------------------------------
(* SpecAspectEq: Aspect.__eq__ and Aspect.__hash__ on two aspects.         *)

\* Hashes are integers below this.
HashModulus == 8

\* mandatory | optional | either_or: the names and the groups in one set.
\* A name never equals a group, so the members are kept apart by a tag.
intersects(pattern) ==
    {<<"name", n>> : n \in pattern.mandatory \cup pattern.optional}
        \cup {<<"group", g>> : g \in pattern.either_or}

\* hash() of a name.
name_hash(n) == IF n = "Pos" THEN 1 ELSE IF n = "Left" THEN 2 ELSE 3

\* hash() of a frozenset of names: a value that depends on the members
\* only, not on the order they were put in.
RECURSIVE names_hash(_)
names_hash(group) ==
    IF group = {} THEN 5
    ELSE LET n == CHOOSE x \in group : TRUE
         IN (name_hash(n) + names_hash(group \ {n})) % HashModulus

\* hash() of the mixed frozenset, from the hashes of its members.
RECURSIVE frozenset_hash(_)
frozenset_hash(members) ==
    IF members = {} THEN 5
    ELSE LET x == CHOOSE y \in members : TRUE
             h == IF x[1] = "name" THEN name_hash(x[2]) ELSE 3 * names_hash(x[2])
         IN (h + frozenset_hash(members \ {x})) % HashModulus

\* Aspect.__hash__
__hash__(pattern) == frozenset_hash(intersects(pattern))

\* __eq__ comparing the three sets one by one.
__eq__fieldwise(pattern, other) ==
    /\ pattern.mandatory = other.mandatory
    /\ pattern.optional = other.optional
    /\ pattern.either_or = other.either_or

\* Aspect.__eq__ for another Aspect
__eq__(pattern, other) ==
    LET this_intersects == intersects(pattern)
        other_intersects == intersects(other)
    IN this_intersects = other_intersects

AspectEqInit ==
    /\ NoStore
    /\ events = <<>>
    /\ queue_log = <<>>
    /\ last = NoCall
    /\ calls = 0
    /\ NoMachine
    /\ NoTick
    /\ tested_aspect \in StoreAspects
    /\ other_aspect \in StoreAspects
    /\ tested_names = {}
    /\ answer = <<>>

Compare ==
    /\ answer = <<>>
    /\ answer' = <<[eq |-> __eq__(tested_aspect, other_aspect),
                    hashes |-> <<__hash__(tested_aspect), __hash__(other_aspect)>>]>>
    /\ UNCHANGED <<store_vars, queue_log, last, calls, tested_aspect, tested_names,
                   other_aspect, machine_vars, tick, systems>>

AspectEqNext == Compare

SpecAspectEq == AspectEqInit /\ [][AspectEqNext]_vars

\* The two aspects hold the same names and the same groups, but split the
\* names differently between mandatory and optional.
PartitionedDifferently ==
    /\ tested_aspect.mandatory \cup tested_aspect.optional
          = other_aspect.mandatory \cup other_aspect.optional
    /\ tested_aspect.either_or = other_aspect.either_or
    /\ tested_aspect.mandatory # other_aspect.mandatory

\* C25: two aspects with the same kinds, split differently between
\* mandatory and optional, compare unequal.
C25_PartitionDistinguished ==
    (answer # <<>> /\ PartitionedDifferently) => ~answer[1].eq

\* C26: two aspects compare equal iff they have the same set of mandatory
\* and optional names taken together and the same set of either-or groups,
\* and equal aspects have equal hashes.
C26_EqualIffSameUnion ==
    answer # <<>> =>
        /\ answer[1].eq <=>
              /\ tested_aspect.mandatory \cup tested_aspect.optional
                    = other_aspect.mandatory \cup other_aspect.optional
              /\ tested_aspect.either_or = other_aspect.either_or
        /\ answer[1].eq => answer[1].hashes[1] = answer[1].hashes[2]

\* Two aspects that differ in their mandatory names compared equal, and
\* two groups were among what was compared.
C26_Witness ==
    /\ answer # <<>>
    /\ answer[1].eq
    /\ tested_aspect.mandatory # other_aspect.mandatory
    /\ Cardinality(tested_aspect.either_or) = 2

----------------------------------------------------------------------------
(* SpecView: the aspect queries applied to a store that holds one entity.  *)

\* EntityManager(to_register) with every class of to_register.
EntityManagerOf(classes) ==
    [entities |-> EmptyDict, components |-> [n \in DOMAIN classes |-> EmptyDict],
     events |-> <<>>, component_classes |-> classes, entities_to_remove |-> {},
     next_entity_id |-> 0]

\* add_component_to_entity called for entity_id with each name of `names`.
RECURSIVE add_components(_, _, _)
add_components(em, entity_id, names) ==
    IF names = {} THEN em
    ELSE LET n == CHOOSE x \in names : TRUE
         IN add_components(add_component_to_entity(em, entity_id, n, [complete |-> TRUE]).em,
                           entity_id, names \ {n})

\* The host registered the classes, created entity 0 from a dict with the
\* keys `keys` and added components to it; an aspect is chosen to query with.
ViewInit ==
    /\ \E keys \in KeyOrders : \E added \in SUBSET ComponentNames :
          LET made == create_entity(EntityManagerOf(to_register), keys,
                                    [i \in 1..Len(keys) |-> [complete |-> TRUE]], FALSE)
              em == add_components(made.em, made.ret, added)
          IN /\ entities = em.entities
             /\ components = em.components
             /\ events = em.events
             /\ component_classes = em.component_classes
             /\ entities_to_remove = em.entities_to_remove
             /\ next_entity_id = em.next_entity_id
             /\ created = <<made.ret>>
    /\ last = NoCall
    /\ calls = 0
    /\ queue_log = <<>>
    /\ NoMachine
    /\ NoTick
    /\ tested_aspect \in StoreAspects
    /\ tested_names = {}
    /\ other_aspect = [mandatory |-> {}, optional |-> {}, either_or |-> {}]
    /\ answer = <<>>

\* get_matching_entity(0, aspect) and get_matching_entities(aspect)
QueryView ==
    /\ answer = <<>>
    /\ answer' = <<[one |-> get_matching_entity(EM, 0, tested_aspect),
                    group |-> get_matching_entities(EM, tested_aspect)]>>
    /\ UNCHANGED <<store_vars, queue_log, last, calls, tested_aspect, tested_names,
                   other_aspect, machine_vars, tick, systems>>

ViewNext == QueryView

SpecView == ViewInit /\ [][ViewNext]_vars

\* C28: for an entity that matches the aspect, the view returned by either
\* query has as keys the attached kinds that are mandatory, optional or the
\* one member picked from an either-or group, which are the attached kinds
\* in aspect.all; no other attached kind appears and an optional kind that
\* is not attached is left out.
C28_ViewKeys ==
    answer # <<>> =>
        LET attached == entities[0]
            picked == {k \in attached :
                          \E g \in tested_aspect.either_or : attached \cap g = {k}}
            keys == (attached \cap (tested_aspect.mandatory \cup tested_aspect.optional))
                        \cup picked
        IN /\ is_matched(tested_aspect, attached) <=> answer[1].one.found
           /\ answer[1].one.found =>
                 /\ DOMAIN answer[1].one.view = keys
                 /\ keys = attached \cap all(tested_aspect)
                 /\ 0 \in DOMAIN answer[1].group.ret
                 /\ DOMAIN answer[1].group.ret[0] = keys

\* A view was returned that holds an either-or pick and leaves out an
\* attached kind the aspect does not name.
C28_Witness ==
    /\ answer # <<>>
    /\ answer[1].one.found
    /\ DOMAIN answer[1].one.view # entities[0]
    /\ \E k \in DOMAIN answer[1].one.view :
          k \notin tested_aspect.mandatory \cup tested_aspect.optional

----------------------------------------------------------------------------
(* Claims on the default either_or and on the events of a flush. *)

\* Aspect.__init__ with either_or omitted: the default ((),) frozen, a set
\* that holds one group, the empty one.
default_either_or == {{}}

\* C29: an aspect built with either_or omitted imposes no either-or
\* constraint: is_matched(S) holds iff S holds every mandatory name.
C29_DefaultEitherOrUnconstrained ==
    (answer # <<>> /\ tested_aspect.either_or = default_either_or) =>
        (answer[1] <=> tested_aspect.mandatory \subseteq tested_names)

\* The positions in evs of the RemoveEntity event of entity_id.
RemovalsOf(evs, entity_id) == {i \in DOMAIN evs : evs[i] = RemoveEntity(entity_id)}

\* C30: remove_queued_entities pushes exactly one RemoveEntity event for
\* each entity of the pending-removal set and no other event, in whatever
\* order the set is gone through.
C30_FlushPushesOneEventEach ==
    \A r \in remove_queued_entities(EM) :
        LET pushed == SubSeq(r.em.events, Len(events) + 1, Len(r.em.events))
        IN /\ SubSeq(r.em.events, 1, Len(events)) = events
           /\ Len(pushed) = Cardinality(entities_to_remove)
           /\ \A entity_id \in entities_to_remove :
                 Cardinality(RemovalsOf(pushed, entity_id)) = 1

(***************************************************************************)
(* Claims on the pending-removal set and on the event stream               *)
(***************************************************************************)

\* C31: in every reachable state of the store, every ID in the
\* pending-removal set is a live entity.
C31_PendingAreLive == entities_to_remove \subseteq live_entities(EM)

\* SpecLog: the store under the calls of a host as in Spec, with queue_log
\* recording every push the called method made on em.events (the methods
\* only append, so the pushes of a call are the events beyond the buffer's
\* old length) and every get of the host.
PushesOf(em) ==
    [i \in 1..(Len(em.events) - Len(events)) |->
        QueueCall("push", em.events[Len(events) + i], <<>>)]

LogCalled(op, em, err) ==
    /\ calls < MaxCalls
    /\ calls' = calls + 1
    /\ last' = [op |-> op, err |-> err]
    /\ queue_log' = queue_log \o PushesOf(em)
    /\ UNCHANGED <<aspect_vars, machine_vars, tick, systems>>

LogRegisterComponent ==
    \E component_name \in ComponentNames :
        LET em == register_component(EM, component_name, to_register[component_name])
        IN /\ Becomes(em)
           /\ LogCalled("register_component", em, "none")
           /\ UNCHANGED created

LogCreateEntity ==
    \E a \in CreateArgs :
        LET r == create_entity(EM, a.keys, a.vals, a.instantiated)
        IN /\ Becomes(r.em)
           /\ LogCalled("create_entity", r.em, r.err)
           /\ created' = IF r.err = "none" THEN Append(created, r.ret) ELSE created

LogAddComponentToEntity ==
    \E entity_id \in EntityIDs :
    \E component_name \in ComponentNames :
    \E new_component_info \in NewComponentInfos :
        LET r == add_component_to_entity(EM, entity_id, component_name, new_component_info)
        IN /\ Becomes(r.em)
           /\ LogCalled("add_component_to_entity", r.em, r.err)
           /\ UNCHANGED created

LogRemoveEntity ==
    \E entity_id \in EntityIDs :
    \E immediate \in BOOLEAN :
    \E r \in remove_entity(EM, entity_id, immediate) :
        /\ Becomes(r.em)
        /\ LogCalled("remove_entity", r.em, r.err)
        /\ UNCHANGED created

LogRemoveQueuedEntities ==
    \E r \in remove_queued_entities(EM) :
        /\ Becomes(r.em)
        /\ LogCalled("remove_queued_entities", r.em, r.err)
        /\ UNCHANGED created

LogEventsGet ==
    LET r == get(events)
    IN /\ events' = r.events
       /\ calls < MaxCalls
       /\ calls' = calls + 1
       /\ last' = [op |-> "get", err |-> "none"]
       /\ queue_log' = Append(queue_log, QueueCall("get", "None", r.to_return))
       /\ UNCHANGED <<entities, components, component_classes, entities_to_remove,
                      next_entity_id, created, aspect_vars, machine_vars, tick, systems>>

LogNext ==
    \/ LogRegisterComponent
    \/ LogCreateEntity
    \/ LogAddComponentToEntity
    \/ LogRemoveEntity
    \/ LogRemoveQueuedEntities
    \/ LogEventsGet

SpecLog == Init /\ [][LogNext]_vars

\* The set left by replaying `evs` in order from `S`: an EntityAdded inserts
\* its ID and a RemoveEntity deletes it.
RECURSIVE Replay(_, _)
Replay(S, evs) ==
    IF evs = <<>> THEN S
    ELSE Replay(IF Head(evs).id = EntityAddedID
                THEN S \cup {Head(evs).info.entity_id}
                ELSE S \ {Head(evs).info.entity_id},
                Tail(evs))

\* Every ID of `evs` has exactly one EntityAdded and at most one
\* RemoveEntity, and the EntityAdded comes first.
WellFormedStream(evs) ==
    \A e \in {evs[i].info.entity_id : i \in DOMAIN evs} :
        LET added == {i \in DOMAIN evs : evs[i] = EntityAdded(e)}
            removed == RemovalsOf(evs, e)
        IN /\ Cardinality(added) = 1
           /\ Cardinality(removed) <= 1
           /\ \A i \in added : \A j \in removed : i < j

\* C32: replaying all events pushed so far, in push order, yields exactly
\* live_entities, and the stream has for each ID exactly one EntityAdded,
\* at most one RemoveEntity, and the EntityAdded before the RemoveEntity.
C32_EventStreamIsLog ==
    /\ Replay({}, Pushed(queue_log)) = live_entities(EM)
    /\ WellFormedStream(Pushed(queue_log))

----------------------------------------------------------------------------
(* Claims on the events handed to the systems, checked under SpecTick. *)

\* C33: whenever an iteration hands an EntityAdded event to a system, the
\* entity the event names is live (the handlers and the domain systems
\* delete no entity, so the live set right after the iteration is the live
\* set at the dispatch), so its lookup cannot fail for an unknown ID.
C33_AddedEventNamesLiveEntity ==
    last.op = "run" =>
        \A i \in StepsAt({"handle_event"}) :
            tick.log[i].event.id = EntityAddedID =>
                tick.log[i].event.info.entity_id \in live_entities(EM)

----------------------------------------------------------------------------
(* SpecCache: CombatState.update with systems that keep entity views.      *)
(*                                                                         *)
(* A system is followed by its fields: the caches `entities` and           *)
(* `text_entities` (EntityID -> view), `player` and `_player_id` of the    *)
(* input handler (the empty set for None), and the patterns                *)
(* `_with_components` and `_with_components_text` it queries the store     *)
(* with.  The constructors set the patterns to sets of names; a host can   *)
(* assign Aspects to them.                                                 *)
(* The kinds "Pos" and "Left" stand for the components a system reads, so  *)
(* reading a component from a cached view succeeds, and the entity that    *)
(* matches the input handler's pattern is the one labelled "player".       *)

\* A pattern as a system holds it: a plain set of names, or an Aspect.
NameSet(names) == [type |-> "set", aspect |-> Aspect(names, {}, {})]
AspectOf(names) == [type |-> "Aspect", aspect |-> Aspect(names, {}, {})]

\* <System>.__init__: empty caches and the two patterns.
NewSystem(with_components, with_components_text) ==
    [entities |-> EmptyDict, text_entities |-> EmptyDict,
     player |-> EmptyDict, player_id |-> {},
     with_components |-> with_components, with_components_text |-> with_components_text]

\* The dict game_systems of main(): every pattern is a set of names.
main_systems ==
    [n \in Range(game_systems) |->
        CASE n = "PlayerInputsHandlerCombatSystem" -> NewSystem(NameSet({"Pos", "Left"}), NameSet({}))
          [] n = "DrawSystem" -> NewSystem(NameSet({"Pos"}), NameSet({"Left"}))
          [] n = "PhysicsSimulationSystem" -> NewSystem(NameSet({"Pos"}), NameSet({}))
          [] n = "AssetsManagerSystem" -> NewSystem(NameSet({}), NameSet({}))
          [] n = "TextLinksSystem" -> NewSystem(NameSet({"Pos"}), NameSet({"Left"}))
          [] n = "MovementApplySystem" -> NewSystem(NameSet({"Left"}), NameSet({}))]

\* The same systems after the host assigned an Aspect of the same names to
\* each pattern.
aspect_systems ==
    [n \in Range(game_systems) |->
        [main_systems[n] EXCEPT
            !.with_components = AspectOf(@.aspect.mandatory),
            !.with_components_text = AspectOf(@.aspect.mandatory)]]

\* entity_manager.get_matching_entity(entity_id, pattern) as a system calls
\* it: `pattern.all` of a set of names raises AttributeError.
lookup(em, entity_id, pattern) ==
    IF pattern.type = "set"
    THEN [em |-> em, err |-> "AttributeError", found |-> FALSE, view |-> EmptyDict]
    ELSE get_matching_entity(em, entity_id, pattern.aspect)

\* The EntityAdded branch of the handlers that keep one cache.
cache_entity(sys, em, entity_id) ==
    LET new_entity == lookup(em, entity_id, sys.with_components)
    IN IF new_entity.err # "none" THEN [sys |-> sys, err |-> new_entity.err]
       ELSE IF new_entity.found
       THEN [sys |-> [sys EXCEPT !.entities = Put(@, entity_id, new_entity.view)], err |-> "none"]
       ELSE [sys |-> sys, err |-> "none"]

\* The EntityAdded branch of TextLinksSystem and DrawSystem: an entity that
\* fails the first pattern is tried against the text pattern.
cache_entity_or_text(sys, em, entity_id) ==
    LET new_entity == lookup(em, entity_id, sys.with_components)
        new_text_entity == lookup(em, entity_id, sys.with_components_text)
    IN IF new_entity.err # "none" THEN [sys |-> sys, err |-> new_entity.err]
       ELSE IF new_entity.found
       THEN [sys |-> [sys EXCEPT !.entities = Put(@, entity_id, new_entity.view)], err |-> "none"]
       ELSE IF new_text_entity.err # "none" THEN [sys |-> sys, err |-> new_text_entity.err]
       ELSE IF new_text_entity.found
       THEN [sys |-> [sys EXCEPT !.text_entities = Put(@, entity_id, new_text_entity.view)],
             err |-> "none"]
       ELSE [sys |-> sys, err |-> "none"]

PlayerInputsHandlerCombatSystem_handle_event(sys, em, event_obj) ==
    LET entity_id == event_obj.info.entity_id
        new_entity == lookup(em, entity_id, sys.with_components)
    IN IF event_obj.id = RemoveEntityID
       THEN IF sys.player_id # {} /\ {entity_id} = sys.player_id
            THEN [sys |-> [sys EXCEPT !.player = EmptyDict], err |-> "none"]
            ELSE [sys |-> sys, err |-> "none"]
       ELSE IF event_obj.id = EntityAddedID
       THEN IF new_entity.err # "none" THEN [sys |-> sys, err |-> new_entity.err]
            ELSE IF new_entity.found
            THEN [sys |-> [sys EXCEPT !.player = new_entity.view, !.player_id = {entity_id}],
                  err |-> "none"]
            ELSE [sys |-> sys, err |-> "none"]
       ELSE [sys |-> sys, err |-> "RuntimeError"]

\* MovementApplySystem.handle_event and PhysicsSimulationSystem.handle_event
MovementApplySystem_handle_event(sys, em, event_obj) ==
    LET entity_id == event_obj.info.entity_id
    IN IF event_obj.id = RemoveEntityID
       THEN [sys |-> [sys EXCEPT !.entities = Del(@, entity_id)], err |-> "none"]
       ELSE IF event_obj.id = EntityAddedID THEN cache_entity(sys, em, entity_id)
       ELSE [sys |-> sys, err |-> "RuntimeError"]

\* TextLinksSystem.handle_event: both `del` statements are in one
\* suppress(KeyError) block, so the second runs only when the first found
\* its key.
TextLinksSystem_handle_event(sys, em, event_obj) ==
    LET entity_id == event_obj.info.entity_id
    IN IF event_obj.id = RemoveEntityID
       THEN IF entity_id \in DOMAIN sys.entities
            THEN [sys |-> [sys EXCEPT !.entities = Del(@, entity_id),
                                      !.text_entities = Del(@, entity_id)],
                  err |-> "none"]
            ELSE [sys |-> sys, err |-> "none"]
       ELSE IF event_obj.id = EntityAddedID THEN cache_entity_or_text(sys, em, entity_id)
       ELSE [sys |-> sys, err |-> "RuntimeError"]

\* DrawSystem.handle_event: the block deletes from self.entities twice and
\* never from self.text_entities.
DrawSystem_handle_event(sys, em, event_obj) ==
    LET entity_id == event_obj.info.entity_id
    IN IF event_obj.id = RemoveEntityID
       THEN [sys |-> [sys EXCEPT !.entities = Del(Del(@, entity_id), entity_id)], err |-> "none"]
       ELSE IF event_obj.id = EntityAddedID THEN cache_entity_or_text(sys, em, entity_id)
       ELSE [sys |-> sys, err |-> "RuntimeError"]

\* system_obj.handle_event(entity_manager, event) by the system's class.
System_handle_event(system, sys, em, event_obj) ==
    CASE system = "PlayerInputsHandlerCombatSystem" ->
            PlayerInputsHandlerCombatSystem_handle_event(sys, em, event_obj)
      [] system = "DrawSystem" -> DrawSystem_handle_event(sys, em, event_obj)
      [] system = "TextLinksSystem" -> TextLinksSystem_handle_event(sys, em, event_obj)
      [] system \in {"PhysicsSimulationSystem", "MovementApplySystem"} ->
            MovementApplySystem_handle_event(sys, em, event_obj)
      [] system = "AssetsManagerSystem" -> [sys |-> sys, err |-> "none"]

\* CombatState.update, lines 99-101, on systems with fields: the nested
\* loops from the n-th (event, system) pair on.
RECURSIVE dispatch_to(_, _, _, _, _)
dispatch_to(syss, em, evs, order, n) ==
    IF n = Len(evs) * Len(order) THEN [systems |-> syss, log |-> <<>>, err |-> "none"]
    ELSE LET event_obj == evs[(n \div Len(order)) + 1]
             system == order[(n % Len(order)) + 1]
             handled == System_handle_event(system, syss[system], em, event_obj)
             entry == Step("handle_event", system, event_obj)
             after == [syss EXCEPT ![system] = handled.sys]
         IN IF handled.err # "none"
            THEN [systems |-> after, log |-> <<entry>>, err |-> handled.err]
            ELSE LET rest == dispatch_to(after, em, evs, order, n + 1)
                 IN [rest EXCEPT !.log = <<entry>> \o @]

\* The IDs of S in increasing order.
RECURSIVE sorted(_)
sorted(S) ==
    IF S = {} THEN <<>>
    ELSE LET least == CHOOSE x \in S : \A y \in S : x <= y
         IN <<least>> \o sorted(S \ {least})

\* The collision loop of simulate_physics, lines 296-310: each entity of
\* `collided` is marked for deferred removal (twice, _get_collisions pairs
\* every cached entity with itself), in the order of the sorted IDs.
RECURSIVE mark_collided(_, _, _)
mark_collided(em, ids, i) ==
    IF i > Len(ids) THEN [em |-> em, err |-> "none"]
    ELSE LET r == CHOOSE x \in remove_entity(em, ids[i], FALSE) : TRUE
         IN IF r.err # "none" THEN r ELSE mark_collided(r.em, ids, i + 1)

\* PhysicsSimulationSystem.simulate_physics: one outcome for each set of
\* cached entities whose hitbox collides with itself.
simulate_physics(sys, em) ==
    {mark_collided(em, sorted(collided), 1) : collided \in SUBSET DOMAIN sys.entities}

\* CombatState.update on systems with fields: the outcomes.  The moves
\* handle_text_links, apply_movement_flags and simulate_physics make on
\* component objects are outside the model; the deferred removals of
\* simulate_physics are in it.
update_systems(em, syss, order) ==
    UNION {IF flushed.err # "none"
           THEN {[em |-> flushed.em, systems |-> syss, drained |-> <<>>,
                  log |-> <<Step("remove_queued_entities", "None", "None")>>,
                  err |-> flushed.err]}
           ELSE LET drained == get(flushed.em.events)
                    em1 == [flushed.em EXCEPT !.events = drained.events]
                    dispatched == dispatch_to(syss, em1, drained.to_return, order, 0)
                    steps == <<Step("remove_queued_entities", "None", "None"),
                               Step("get", "None", "None")>> \o dispatched.log
                IN IF dispatched.err # "none"
                   THEN {[em |-> em1, systems |-> dispatched.systems,
                          drained |-> drained.to_return, log |-> steps,
                          err |-> dispatched.err]}
                   ELSE {[em |-> simulated.em, systems |-> dispatched.systems,
                          drained |-> drained.to_return,
                          log |-> steps \o domain_systems, err |-> simulated.err]
                         : simulated \in simulate_physics(
                               dispatched.systems["PhysicsSimulationSystem"], em1)}
           : flushed \in remove_queued_entities(em)}

\* The host built the store with both classes registered and the systems
\* of main(), with their patterns as constructed or with Aspects assigned.
CacheInit ==
    /\ entities = EmptyDict
    /\ component_classes = to_register
    /\ components = [n \in ComponentNames |-> EmptyDict]
    /\ events = <<>>
    /\ entities_to_remove = {}
    /\ next_entity_id = 0
    /\ last = NoCall
    /\ created = <<>>
    /\ calls = 0
    /\ queue_log = <<>>
    /\ NoAspectCall
    /\ NoMachine
    /\ tick = [pending |-> {}, drained |-> <<>>, log |-> <<>>, err |-> "none"]
    /\ systems \in {main_systems, aspect_systems}

CacheUpdate ==
    \E r \in update_systems(EM, systems, game_systems) :
        /\ Becomes(r.em)
        /\ systems' = r.systems
        /\ tick' = [pending |-> entities_to_remove, drained |-> r.drained,
                    log |-> r.log, err |-> r.err]
        /\ calls < MaxCalls
        /\ calls' = calls + 1
        /\ last' = [op |-> "update", err |-> r.err]
        /\ UNCHANGED <<created, queue_log, aspect_vars, machine_vars>>

CacheNext ==
    \/ CreateEntity
    \/ RemoveEntityCall
    \/ CacheUpdate

SpecCache == CacheInit /\ [][CacheNext]_vars

\* The IDs a system holds a cached view of.
Cached(sys) == DOMAIN sys.entities \cup DOMAIN sys.text_entities

----------------------------------------------------------------------------
(* Claims on failed transitions and on the lifecycle, checked under        *)
(* SpecMachine.                                                            *)

\* C35: a change_state that raises because the successor is None or is not
\* registered has called no cleanup and leaves the outgoing state's done
\* flag and the active state as they were.
C35_FailedTransitionChangesNothing ==
    state # "None" =>
        LET r == change_state(M)
        IN r.err # "none" =>
              /\ Calls(r.log, "cleanup") = {}
              /\ r.m.done[state] = done[state]
              /\ r.m.state = state

----------------------------------------------------------------------------
(* SpecRun: PygameGame.run driving the GameStateMachine.  game.at is the   *)
(* position in run: "run" before the initial setup, "while" at the loop    *)
(* test, then "update_state" and "draw_state"; "closed" after the loop and *)
(* "raised" after an exception left run.  game.lifecycle holds for each    *)
(* state the latest of its setup and cleanup calls, game.began the same    *)
(* before the latest step.                                                 *)

\* The run is checked under at most this many steps.
MaxRunSteps == 9

\* event_loop handles at most this many pygame events in one iteration.
MaxEvents == 1

\* run without the setup of the initial state.
initial_setup_skipped(m) == [m |-> m, log |-> <<>>, err |-> "none"]

\* run, line 99: self.state_machine.state.setup(...)
initial_setup(m) == [m |-> m, log |-> invoke(<<>>, m, "setup"), err |-> "none"]

\* The pygame events of one iteration: QUIT, or an event the active state
\* handles with the given effect on its own fields.
PygameEvents ==
    {[type |-> "QUIT", effect |-> [done |-> FALSE, next_state |-> "None"]]}
        \cup {[type |-> "OTHER", effect |-> effect] : effect \in Effects}

EventLists == UNION {[1..n -> PygameEvents] : n \in 0..MaxEvents}

\* BaseGame.event_loop over the events `evs`: QUIT sets the game's done
\* flag, any other event goes to the active state's handle_event.
RECURSIVE event_loop(_, _, _)
event_loop(m, game_done, evs) ==
    IF evs = <<>> THEN [m |-> m, done |-> game_done, log |-> <<>>, err |-> "none"]
    ELSE IF Head(evs).type = "QUIT"
    THEN event_loop(m, TRUE, Tail(evs))
    ELSE LET handled == handle_event(m, Head(evs).effect)
             rest == event_loop(handled.m, game_done, Tail(evs))
         IN [rest EXCEPT !.log = handled.log \o @]

\* GameStateMachine.draw_state
draw_state(m) == [m |-> m, log |-> invoke(<<>>, m, "draw"), err |-> "none"]

\* The latest lifecycle call of each state after the calls of `log`.
RECURSIVE Lifecycle(_, _)
Lifecycle(cycle, log) ==
    IF log = <<>> THEN cycle
    ELSE Lifecycle(IF Head(log).cb \in {"setup", "cleanup"}
                   THEN [cycle EXCEPT ![Head(log).on] = Head(log).cb]
                   ELSE cycle,
                   Tail(log))

\* main() builds the states and the machine, and PygameGame around it.
RunInit ==
    /\ NoStore
    /\ events = <<>>
    /\ queue_log = <<>>
    /\ NoAspectCall
    /\ NoTick
    /\ last = NoCall
    /\ calls = 0
    /\ states \in SUBSET RegistrableNames
    /\ \E init_state \in StateNames :
          /\ GameStateMachine(states, init_state).err = "none"
          /\ state = GameStateMachine(states, init_state).state
    /\ done = [n \in StateNames |-> FALSE]
    /\ next_state = [n \in StateNames |-> "None"]
    /\ invoked = <<>>
    /\ game = [done |-> FALSE, at |-> "run",
               began |-> [n \in StateNames |-> "none"],
               lifecycle |-> [n \in StateNames |-> "none"]]

\* A step of run made the calls r.log and left the machine as r.m; run
\* goes on at `at` unless the step raised.
RunStep(op, r, game_done, at) ==
    /\ calls < MaxRunSteps
    /\ calls' = calls + 1
    /\ last' = [op |-> op, err |-> r.err]
    /\ MachineBecomes(r)
    /\ game' = [done |-> game_done,
                at |-> IF r.err = "none" THEN at ELSE "raised",
                began |-> game.lifecycle,
                lifecycle |-> Lifecycle(game.lifecycle, r.log)]
    /\ UNCHANGED <<store_vars, queue_log, aspect_vars, states, tick, systems>>

RunSetup ==
    /\ game.at = "run"
    /\ RunStep("setup", initial_setup(M), game.done, "while")

RunEventLoop ==
    \E evs \in EventLists :
        LET r == event_loop(M, game.done, evs)
        IN /\ game.at = "while"
           /\ ~game.done
           /\ RunStep("event_loop", r, r.done, "update_state")

RunUpdateState ==
    \E effect \in Effects :
        /\ game.at = "update_state"
        /\ RunStep("update_state", update_state(M, effect), game.done, "draw_state")

RunDrawState ==
    /\ game.at = "draw_state"
    /\ RunStep("draw_state", draw_state(M), game.done, "while")

\* The loop test fails and run calls close(), which does nothing.
RunClose ==
    /\ game.at = "while"
    /\ game.done
    /\ RunStep("close", [m |-> M, log |-> <<>>, err |-> "none"], game.done, "closed")

RunNext ==
    \/ RunSetup
    \/ RunEventLoop
    \/ RunUpdateState
    \/ RunDrawState
    \/ RunClose

SpecRun == RunInit /\ [][RunNext]_vars

\* The calls of `log`, made when the states' latest lifecycle calls were
\* `cycle`, keep the lifecycle: a setup comes first or after a cleanup, a
\* cleanup after a setup, and any other callback after a setup.
RECURSIVE Obeys(_, _)
Obeys(cycle, log) ==
    IF log = <<>> THEN TRUE
    ELSE /\ IF Head(log).cb = "setup" THEN cycle[Head(log).on] \in {"none", "cleanup"}
            ELSE cycle[Head(log).on] = "setup"
         /\ Obeys(Lifecycle(cycle, <<Head(log)>>), Tail(log))

\* C36: in every step of a run, each state's setup and cleanup calls
\* alternate beginning with setup, and update, handle_event and draw are
\* called only on a state whose latest lifecycle call was setup.
C36_LifecycleAlternates ==
    game.at # "None" => Obeys(game.began, invoked)

\* A state was cleaned up and its successor set up in update_state, and the
\* successor has been drawn.
C36_Witness ==
    /\ last = [op |-> "draw_state", err |-> "none"]
    /\ \E n \in StateNames : game.began[n] = "cleanup"
    /\ game.began[state] = "setup"
    /\ game.lifecycle = game.began
    /\ invoked = <<[cb |-> "draw", on |-> state, done |-> done[state]]>>

----------------------------------------------------------------------------
(* The claim on the delivery of pushed events, checked under SpecTick,     *)
(* where the queue is drained by the iterations only.                      *)

\* C37: every event pushed to the queue reaches the systems no later than
\* the first drain after its push: each event an iteration drained has been
\* handed to handle_event in that same iteration.
C37_DrainedEventsDispatched ==
    last.op = "run" =>
        \A i \in DOMAIN tick.drained :
            \E j \in StepsAt({"handle_event"}) : tick.log[j].event = tick.drained[i]
====
